---- MODULE Spec2Model ----
(***************************************************************************)
(* A model of finverify's document chunking pipeline:                      *)
(*   src/chunk_docs_html_fixed.py          (the "fixed", permissive file)  *)
(*   src/src/chunking/chunk_docs_html.py   (the original, aggressive file) *)
(*                                                                         *)
(* Three state machines share this module:                                 *)
(*   Spec      - one call of quick_chunk_text, one loop iteration a step   *)
(*   CleanSpec - the line filter of clean_html_text, one line a step       *)
(*   MainSpec  - main(): process_sec_html and process_json_dataset         *)
(*                                                                         *)
(* A text is a sequence of one-character strings.                          *)
(***************************************************************************)
EXTENDS Integers, Sequences, FiniteSets, TLC

VARIABLES
    \* ---- quick_chunk_text -------------------------------------------
    text,        \* the argument text
    chunk_size,  \* the argument chunk_size
    overlap,     \* the argument overlap
    start,       \* the local start
    chunks,      \* the local list chunks (the return value once pc = "done")
    pc,          \* "while": at the loop test; "done": returned; "idle"
    windows,     \* history: one record per loop iteration run so far
    chunk_win,   \* history: chunk_win[n] is the iteration that appended chunks[n]
    \* ---- clean_html_text, step 4/5 (the line filter) -----------------
    policy,        \* "permissive" (chunk_docs_html_fixed.py) or "aggressive"
    clean_text,    \* the local text the filter is applied to
    lines,         \* text.splitlines()
    line_i,        \* the position of the for loop in lines (1-based)
    cleaned_lines, \* the local list cleaned_lines
    cpc,           \* "filter": in the for loop; "done": returned; "idle"
    outs,          \* history: the strings returned so far, oldest first
    decisions,     \* history: one record per line the loop has handled
    \* ---- main, process_sec_html, process_json_dataset ----------------
    sec_files,     \* html_files: the names of the HTML files found
    datasets,      \* the four JSON files: whether each exists, and the list
                   \* json.load returns for it
    stage,         \* where main is: "sec", "fb", "train", "dev", "test", "save",
                   \* "done", "crashed" (an exception left main), "idle"
    doc_i,         \* the loop index i of the running process_* function
    local_chunks,  \* the list all_chunks of the running process_* function
    processed,     \* process_sec_html's counter processed
    skipped,       \* process_sec_html's counter skipped
    counted,       \* history: how process_sec_html counted each file it has
                   \* handled, in order: "processed", "too_short", "exception"
    total_text_length, \* process_sec_html's counter (fixed file only)
    all_chunks,    \* main's list all_chunks
    saved          \* chunks.json: whether main has written it, and the list written

chunkVars == <<text, chunk_size, overlap, start, chunks, pc, windows, chunk_win>>

cleanVars == <<policy, clean_text, lines, line_i, cleaned_lines, cpc, outs, decisions>>

mainVars == <<sec_files, datasets, stage, doc_i, local_chunks, processed, skipped,
              counted, total_text_length, all_chunks, saved>>

vars == <<chunkVars, cleanVars, mainVars>>

\* What a step of one state machine leaves alone.
notChunk == <<cleanVars, mainVars>>
notClean == <<chunkVars, mainVars>>
notMain == <<chunkVars, cleanVars>>

-----------------------------------------------------------------------------
(* Bounds of the model *)

\* Texts carry 0..MaxPad whitespace characters at either end.
MaxPad == 1

\* A call whose step chunk_size - overlap is not positive never returns;
\* the model follows it for MaxIter iterations.
MaxIter == 6

\* The text given to the line filter has 0..MaxLines lines.
MaxLines == 2

\* The line filter is applied MaxPasses times: to the text, then to its own output.
MaxPasses == 2

\* process_sec_html finds 0..MaxFiles HTML files.
MaxFiles == 3

\* A JSON file that exists holds 0..MaxRecs records.
MaxRecs == 2

(* Program constants *)

\* len(chunk_text.strip()) > 50
MinChunkChars == 50

\* def quick_chunk_text(text, chunk_size=2048, overlap=200)
DefaultChunkSize == 2048

DefaultOverlap == 200

\* permissive: if len(line) < 20
PermissiveMinLen == 20

\* permissive: if letters < 3
PermissiveMinLetters == 3

\* permissive: if alphanumeric < len(line) * 0.3, the ratio 0.3 as 3/10
RatioNum == 3

RatioDen == 10

\* aggressive: if digits > 0 and digits >= 2 * max(1, letters)
DigitFactor == 2

\* aggressive: if len(line) < 40
AggressiveMinLen == 40

\* process_sec_html, fixed file: if len(text) < 1000
SecMinLenFixed == 1000

\* process_sec_html, original file: if len(text) < 100
SecMinLenOriginal == 100

\* process_json_dataset: if len(text) < 50
JsonMinLen == 50

-----------------------------------------------------------------------------
(* Strings *)

\* Characters str.strip() removes and \s matches (those the model uses).
Whitespace == {" ", "\n", "\t"}

\* c * n
Rep(c, n) == [i \in 1..n |-> c]

\* An index of a slice, as Python resolves it against a length:
\* negative indices count from the end, and everything is clamped to 0..len.
SliceIndex(i, len) ==
    IF i < 0 THEN (IF i + len < 0 THEN 0 ELSE i + len)
    ELSE IF i > len THEN len ELSE i

\* s[a:b]
Slice(s, a, b) ==
    LET lo == SliceIndex(a, Len(s))
        hi == SliceIndex(b, Len(s))
    IN  IF lo < hi THEN SubSeq(s, lo + 1, hi) ELSE << >>

RECURSIVE FirstNonWs(_, _)
\* The least index >= i of a non-whitespace character of s, Len(s)+1 if none.
FirstNonWs(s, i) ==
    IF i > Len(s) \/ s[i] \notin Whitespace THEN i ELSE FirstNonWs(s, i + 1)

RECURSIVE LastNonWs(_, _)
\* The greatest index <= i of a non-whitespace character of s, 0 if none.
LastNonWs(s, i) ==
    IF i < 1 \/ s[i] \notin Whitespace THEN i ELSE LastNonWs(s, i - 1)

\* s.strip()
Strip(s) ==
    LET lo == FirstNonWs(s, 1)
        hi == LastNonWs(s, Len(s))
    IN  IF lo > hi THEN << >> ELSE SubSeq(s, lo, hi)

-----------------------------------------------------------------------------
(* quick_chunk_text, line by line *)

\* end = start + chunk_size
WindowEnd(s, cs) == s + cs

\* chunk_text = text[start:end]
ChunkText(t, s, e) == Slice(t, s, e)

\* A slip: the untrimmed length is tested.
KeepChunk_NoStrip(chunk_text) == Len(chunk_text) > MinChunkChars

\* if len(chunk_text.strip()) > 50
KeepChunk(chunk_text) == Len(Strip(chunk_text)) > MinChunkChars

\* A slip: the overlap is forgotten.
NextStart_NoOverlap(e, ov) == e

\* A slip: the next window starts one character early.
NextStart_OffByOne(e, ov) == e - ov - 1

\* A slip: the next window starts one character late.
NextStart_SkipOne(e, ov) == e - ov + 1

\* start = end - overlap
NextStart(e, ov) == e - ov

\* if end >= text_len: break
BreakNow(e, text_len) == e >= text_len

\* lead whitespace, b1 letters, gap whitespace, b2 letters, trail whitespace
MakeText(lead, b1, gap, b2, trail) ==
    Rep(" ", lead) \o Rep("a", b1) \o Rep(" ", gap) \o Rep("a", b2) \o Rep(" ", trail)

BodySizes == {0, MinChunkChars, MinChunkChars + 1, 70}
GapSizes == {0, 1, 60}

SmallTexts ==
    { MakeText(l, b1, g, b2, t) :
        l \in 0..MaxPad, b1 \in BodySizes, g \in GapSizes,
        b2 \in BodySizes, t \in 0..MaxPad }

\* "A" * 5000, the text of the specification's worked example
BigText == Rep("A", 5000)

ChunkSizes == {-1, 0, 1, 30, 60, 70, 100, DefaultChunkSize}
Overlaps == {0, 1, 10, 30, 50, 150, DefaultOverlap}

\* The state at the loop's first test: chunks = [], start = 0.
InitChunk ==
    /\ \/ /\ text \in SmallTexts
          /\ chunk_size \in ChunkSizes
          /\ overlap \in Overlaps
       \/ /\ text = BigText
          /\ chunk_size = DefaultChunkSize
          /\ overlap = DefaultOverlap
    /\ start = 0
    /\ chunks = << >>
    /\ pc = "while"
    /\ windows = << >>
    /\ chunk_win = << >>

\* One iteration of the while loop: the test start < text_len holds.
Iterate ==
    /\ pc = "while"
    /\ start < Len(text)
    /\ chunk_size - overlap > 0 \/ Len(windows) < MaxIter
    /\ LET end == WindowEnd(start, chunk_size)
           chunk_text == ChunkText(text, start, end)
           keep == KeepChunk(chunk_text)
       IN  /\ chunks' = IF keep THEN Append(chunks, chunk_text) ELSE chunks
           /\ chunk_win' = IF keep THEN Append(chunk_win, Len(windows) + 1)
                                   ELSE chunk_win
           /\ windows' = Append(windows,
                                [start |-> start, end |-> end,
                                 len |-> Len(chunk_text), kept |-> keep])
           /\ start' = NextStart(end, overlap)
           /\ pc' = IF BreakNow(end, Len(text)) THEN "done" ELSE "while"
    /\ UNCHANGED <<text, chunk_size, overlap>>
    /\ UNCHANGED notChunk

\* The test start < text_len fails: return chunks.
Return ==
    /\ pc = "while"
    /\ ~(start < Len(text))
    /\ pc' = "done"
    /\ UNCHANGED <<text, chunk_size, overlap, start, chunks, windows, chunk_win>>
    /\ UNCHANGED notChunk

-----------------------------------------------------------------------------
(* clean_html_text: the line filter (step 4) and the join and collapse (step 5).
   The text it starts from is the one soup.get_text and the entity
   replacements have produced. *)

\* str.isalpha (the characters the model uses)
Letters ==
    { "a", "b", "c", "d", "e", "f", "g", "h", "i", "j", "k", "l", "m",
      "n", "o", "p", "q", "r", "s", "t", "u", "v", "w", "x", "y", "z",
      "A", "B", "C", "D", "E", "F", "G", "H", "I", "J", "K", "L", "M",
      "N", "O", "P", "Q", "R", "S", "T", "U", "V", "W", "X", "Y", "Z" }

\* str.isdigit
Digits ==
    { "0", "1", "2", "3", "4", "5", "6", "7", "8", "9" }

IsAlpha(c) == c \in Letters
IsDigit(c) == c \in Digits
\* str.isalnum
IsAlnum(c) == IsAlpha(c) \/ IsDigit(c)

\* sum(c.isalpha() for c in line)
CountAlpha(line) == Cardinality({i \in 1..Len(line) : IsAlpha(line[i])})
\* sum(c.isdigit() for c in line)
CountDigit(line) == Cardinality({i \in 1..Len(line) : IsDigit(line[i])})
\* sum(c.isalnum() for c in line)
CountAlnum(line) == Cardinality({i \in 1..Len(line) : IsAlnum(line[i])})

Max(a, b) == IF a >= b THEN a ELSE b

RECURSIVE SplitLines(_)
\* text.splitlines(): the pieces between line ends; no empty last piece.
SplitLines(t) ==
    IF t = << >> THEN << >>
    ELSE LET nl == {i \in 1..Len(t) : t[i] = "\n"}
         IN  IF nl = {} THEN << t >>
             ELSE LET n == CHOOSE i \in nl : \A j \in nl : i <= j
                  IN  << SubSeq(t, 1, n - 1) >> \o SplitLines(SubSeq(t, n + 1, Len(t)))

RECURSIVE JoinWith(_, _)
\* sep.join(ls), sep one character
JoinWith(ls, sep) ==
    IF ls = << >> THEN << >>
    ELSE IF Len(ls) = 1 THEN ls[1]
    ELSE ls[1] \o << sep >> \o JoinWith(Tail(ls), sep)

\* re.sub(r"\s+", " ", t).strip(): of every run of whitespace only its first
\* character stays, as a space; then the ends are trimmed.
CollapseWs(t) ==
    LET idx  == [i \in 1..Len(t) |-> i]
        stay(i) == t[i] \notin Whitespace \/ i = 1 \/ t[i - 1] \notin Whitespace
        kept == SelectSeq(idx, stay)
    IN  Strip([k \in 1..Len(kept) |->
                 IF t[kept[k]] \in Whitespace THEN " " ELSE t[kept[k]]])

\* A slip: a line of exactly 20 characters is dropped too.
KeepPermissive_StrictLen(line) ==
    /\ line # << >>
    /\ ~(Len(line) <= PermissiveMinLen)
    /\ ~(CountAlpha(line) < PermissiveMinLetters)
    /\ ~(RatioDen * CountAlnum(line) < RatioNum * Len(line))

\* A slip: the ratio test counts letters only, so digits can cause a discard.
KeepPermissive_LettersOnly(line) ==
    /\ line # << >>
    /\ ~(Len(line) < PermissiveMinLen)
    /\ ~(CountAlpha(line) < PermissiveMinLetters)
    /\ ~(RatioDen * CountAlpha(line) < RatioNum * Len(line))

\* chunk_docs_html_fixed.py, the body of the for loop: whether the stripped
\* line reaches cleaned_lines.append(line). Python evaluates len(line) * 0.3
\* in binary floating point; for every length up to 20000 the comparison
\* alphanumeric < len(line) * 0.3 agrees with 10 * alphanumeric < 3 * len(line).
KeepPermissive(line) ==
    /\ line # << >>
    /\ ~(Len(line) < PermissiveMinLen)
    /\ ~(CountAlpha(line) < PermissiveMinLetters)
    /\ ~(RatioDen * CountAlnum(line) < RatioNum * Len(line))

\* A slip: max(1, letters) is written letters.
KeepAggressive_NoMax(line) ==
    /\ line # << >>
    /\ ~(CountDigit(line) > 0 /\ CountDigit(line) >= DigitFactor * CountAlpha(line))
    /\ ~(Len(line) < AggressiveMinLen)

\* src/chunking/chunk_docs_html.py, the body of the for loop.
KeepAggressive(line) ==
    /\ line # << >>
    /\ ~(CountDigit(line) > 0
           /\ CountDigit(line) >= DigitFactor * Max(1, CountAlpha(line)))
    /\ ~(Len(line) < AggressiveMinLen)

KeepLine(pol, line) ==
    IF pol = "permissive" THEN KeepPermissive(line) ELSE KeepAggressive(line)

\* [line.strip() for the lines kept]
FilterLines(pol, ls) ==
    SelectSeq([k \in 1..Len(ls) |-> Strip(ls[k])], LAMBDA l : KeepLine(pol, l))

\* Steps 4 and 5 as one function of the text.
CleanText(pol, t) == CollapseWs(JoinWith(FilterLines(pol, SplitLines(t)), " "))

\* "Total revenue was $265.6 billion for the year"
ExTotalRevenue ==
    << "T", "o", "t", "a", "l", " ", "r", "e", "v", "e", "n", "u",
       "e", " ", "w", "a", "s", " ", "$", "2", "6", "5", ".", "6",
       " ", "b", "i", "l", "l", "i", "o", "n", " ", "f", "o", "r",
       " ", "t", "h", "e", " ", "y", "e", "a", "r" >>

\* "12/31 34.5% 99.1"
ExDates ==
    << "1", "2", "/", "3", "1", " ", "3", "4", ".", "5", "%", " ",
       "9", "9", ".", "1" >>

\* "***"
ExStars ==
    << "*", "*", "*" >>

\* "Revenue 2021 2020 2019 1234 5678 9012"
ExRevenueTable ==
    << "R", "e", "v", "e", "n", "u", "e", " ", "2", "0", "2", "1",
       " ", "2", "0", "2", "0", " ", "2", "0", "1", "9", " ", "1",
       "2", "3", "4", " ", "5", "6", "7", "8", " ", "9", "0", "1",
       "2" >>

\* "Management believes the increase in revenue reflects strong demand"
ExManagement ==
    << "M", "a", "n", "a", "g", "e", "m", "e", "n", "t", " ", "b",
       "e", "l", "i", "e", "v", "e", "s", " ", "t", "h", "e", " ",
       "i", "n", "c", "r", "e", "a", "s", "e", " ", "i", "n", " ",
       "r", "e", "v", "e", "n", "u", "e", " ", "r", "e", "f", "l",
       "e", "c", "t", "s", " ", "s", "t", "r", "o", "n", "g", " ",
       "d", "e", "m", "a", "n", "d" >>

\* pad spaces, a letters, s spaces, d digits, p symbols
MakeLine(pad, a, s, d, p) ==
    Rep(" ", pad) \o Rep("a", a) \o Rep(" ", s) \o Rep("7", d) \o Rep("-", p)

\* <<pad, a, s, d, p>>: lines at the thresholds of the two policies
LineShapes ==
    { <<0, 0, 0, 0, 0>>,  <<2, 0, 0, 0, 0>>,
      <<0, 19, 0, 0, 0>>, <<0, 20, 0, 0, 0>>, <<2, 20, 0, 0, 0>>,
      <<0, 2, 0, 18, 0>>, <<0, 3, 0, 17, 0>>,
      <<0, 3, 0, 3, 14>>, <<0, 3, 0, 2, 15>>,
      <<0, 10, 3, 7, 0>>, <<0, 10, 3, 9, 0>>,
      <<0, 39, 0, 0, 0>>, <<0, 40, 0, 0, 0>>,
      <<0, 10, 0, 20, 10>>, <<0, 10, 0, 19, 11>>,
      <<0, 0, 0, 1, 39>>, <<0, 0, 0, 2, 38>>, <<0, 0, 0, 0, 40>>,
      <<0, 30, 3, 7, 0>> }

InputLines ==
    { MakeLine(x[1], x[2], x[3], x[4], x[5]) : x \in LineShapes }
      \cup {ExTotalRevenue, ExDates, ExStars, ExRevenueTable, ExManagement}

\* The texts the filter is given: 0..MaxLines lines, a line end between them.
RawTexts ==
    { JoinWith(ls, "\n") : ls \in UNION {[1..n -> InputLines] : n \in 0..MaxLines} }

Policies == {"permissive", "aggressive"}

\* cleaned_lines = []; for raw_line in text.splitlines():
InitClean ==
    /\ policy \in Policies
    /\ clean_text \in RawTexts
    /\ lines = SplitLines(clean_text)
    /\ line_i = 1
    /\ cleaned_lines = << >>
    /\ cpc = "filter"
    /\ outs = << >>
    /\ decisions = << >>

\* One iteration of the for loop.
FilterLine ==
    /\ cpc = "filter"
    /\ line_i <= Len(lines)
    /\ LET line == Strip(lines[line_i])
           keep == KeepLine(policy, line)
       IN  /\ cleaned_lines' = IF keep THEN Append(cleaned_lines, line)
                                       ELSE cleaned_lines
           /\ decisions' = Append(decisions, [line |-> line, kept |-> keep])
    /\ line_i' = line_i + 1
    /\ UNCHANGED <<policy, clean_text, lines, cpc, outs>>
    /\ UNCHANGED notClean

\* text = " ".join(cleaned_lines); text = re.sub(r"\s+", " ", text).strip(); return text
JoinAndCollapse ==
    /\ cpc = "filter"
    /\ line_i > Len(lines)
    /\ clean_text' = CollapseWs(JoinWith(cleaned_lines, " "))
    /\ outs' = Append(outs, clean_text')
    /\ cpc' = "done"
    /\ UNCHANGED <<policy, lines, line_i, cleaned_lines, decisions>>
    /\ UNCHANGED notClean

\* The filter is applied again, to the text it has just returned.
CleanAgain ==
    /\ cpc = "done"
    /\ Len(outs) < MaxPasses
    /\ lines' = SplitLines(clean_text)
    /\ line_i' = 1
    /\ cleaned_lines' = << >>
    /\ cpc' = "filter"
    /\ UNCHANGED <<policy, clean_text, outs, decisions>>
    /\ UNCHANGED notClean

-----------------------------------------------------------------------------
(* quick_chunk_text as a function of its arguments (the loop of Iterate and
   Return run to its end); used with the default configuration only. *)

RECURSIVE QuickChunkFrom(_, _, _, _)
QuickChunkFrom(t, cs, ov, s) ==
    IF ~(s < Len(t)) THEN << >>
    ELSE LET end == WindowEnd(s, cs)
             chunk_text == ChunkText(t, s, end)
             here == IF KeepChunk(chunk_text) THEN << chunk_text >> ELSE << >>
         IN  IF BreakNow(end, Len(t)) THEN here
             ELSE here \o QuickChunkFrom(t, cs, ov, NextStart(end, ov))

QuickChunkText(t, cs, ov) == QuickChunkFrom(t, cs, ov, 0)

-----------------------------------------------------------------------------
(* main, process_sec_html and process_json_dataset *)

\* str(n) for n >= 0
RECURSIVE IntToStr(_)
IntToStr(n) ==
    LET digit == << "0", "1", "2", "3", "4", "5", "6", "7", "8", "9" >>
    IN  IF n < 10 THEN << digit[n + 1] >>
        ELSE IntToStr(n \div 10) \o << digit[(n % 10) + 1] >>

\* The source labels, as texts
SecLabel == << "s", "e", "c" >>
FbLabel == << "f", "i", "n", "a", "n", "c", "e", "b", "e", "n", "c", "h" >>
TatqaLabel == << "t", "a", "t", "q", "a" >>

\* f"{source_name}_{i}_{j}"
ChunkId(label, i, j) == label \o << "_" >> \o IntToStr(i) \o << "_" >> \o IntToStr(j)

\* JSON values: a string, null, or a key that the record does not have.
JStr(t) == [tag |-> "str", s |-> t]
JNull == [tag |-> "null", s |-> << >>]
JAbsent == [tag |-> "absent", s |-> << >>]

\* item.get(key, default)
Get(v, default) == IF v.tag = "absent" THEN default ELSE v

\* a or b
Or(a, b) == IF a.tag = "str" /\ a.s # << >> THEN a ELSE b

\* str(None)
NoneStr == << "N", "o", "n", "e" >>

\* financebench: text = item.get("context", "") or item.get("answer", "")
FbText(item) ==
    Or(Get(item.context, JStr(<< >>)), Get(item.answer, JStr(<< >>)))

\* tatqa: the text parts of the paragraphs; a paragraph is a str, or a dict
\* whose part is p.get("text", ""), or something else, which is passed over.
RECURSIVE TextParts(_)
TextParts(ps) ==
    IF ps = << >> THEN << >>
    ELSE LET p == Head(ps)
             part == IF p.tag = "str" THEN << p.text >>
                     ELSE IF p.tag = "dict" THEN << Get(p.text, JStr(<< >>)) >>
                     ELSE << >>
         IN  part \o TextParts(Tail(ps))

\* tatqa: " ".join(text_parts), a TypeError when a part is not a str;
\* str(paragraphs) when paragraphs is not a list (null here).
TatqaText(item) ==
    LET paragraphs == Get(item.paragraphs, [tag |-> "list", items |-> << >>])
    IN  IF paragraphs.tag = "list"
        THEN LET parts == TextParts(paragraphs.items)
             IN  IF \E k \in 1..Len(parts) : parts[k].tag # "str"
                 THEN [tag |-> "TypeError", s |-> << >>]
                 ELSE JStr(JoinWith([k \in 1..Len(parts) |-> parts[k].s], " "))
        ELSE JStr(NoneStr)

\* The source_name main passes for each JSON file.
SourceName(st) == IF st = "fb" THEN "financebench" ELSE "tatqa"
SourceLabel(st) == IF st = "fb" THEN FbLabel ELSE TatqaLabel

\* The text of record item, by source_name (lines 223-238).
RecordText(st, item) == IF st = "fb" THEN FbText(item) ELSE TatqaText(item)

\* if len(text) < 50 raises when text is not a str (null has no len).
RecordRaises(st, item) == RecordText(st, item).tag # "str"

\* The records appended for the chunks cs of record i (0-based), lines 245-252.
JsonChunkRecords(st, i, cs) ==
    [j \in 1..Len(cs) |->
        [chunk_id |-> ChunkId(SourceLabel(st), i, j - 1),
         source |-> SourceName(st), source_file |-> "", text |-> cs[j]]]

\* The records appended for the chunks cs of file i (0-based), lines 176-184.
SecChunkRecords(name, i, cs) ==
    [j \in 1..Len(cs) |->
        [chunk_id |-> ChunkId(SecLabel, i, j - 1),
         source |-> "sec_edgar", source_file |-> name, text |-> cs[j]]]

\* The stages of main after process_sec_html, in order.
NextStage(st) ==
    CASE st = "sec" -> "fb"
      [] st = "fb" -> "train"
      [] st = "train" -> "dev"
      [] st = "dev" -> "test"
      [] st = "test" -> "save"

JsonStages == {"fb", "train", "dev", "test"}

\* The HTML files: the name tells the content. FileReadable is whether open,
\* read and the HTML parse succeed; FileText is the text handed to the line
\* filter (after get_text and the entity replacements).
FileNames ==
    {"unreadable.html", "tiny.html", "short.html", "medium.html", "long.html", "huge.htm"}
FileReadable(name) == name # "unreadable.html"
FileText(name) ==
    CASE name = "tiny.html" -> Rep("a", 30)
      [] name = "short.html" -> Rep("a", 60)
      [] name = "medium.html" -> Rep("a", 70) \o << "\n" >> \o Rep("b", 70)
      [] name = "long.html" -> Rep("a", 1100)
      [] name = "huge.htm" -> Rep("a", 1100) \o << "\n", "9", "\n" >> \o Rep("b", 1100)
      [] OTHER -> << >>

\* A slip: the test for a text that is too short is left out.
SecMinLen_None(pol) == 0

\* if len(text) < 1000 (fixed file), if len(text) < 100 (original file)
SecMinLen(pol) == IF pol = "permissive" THEN SecMinLenFixed ELSE SecMinLenOriginal

\* The records of the JSON files
FbRecords ==
    { [context |-> JStr(Rep("a", 60)), answer |-> JAbsent],
      [context |-> JStr(<< >>), answer |-> JStr(Rep("a", 10))],
      [context |-> JNull, answer |-> JNull] }

TatqaRecords ==
    { [paragraphs |-> [tag |-> "list", items |->
          << [tag |-> "dict", text |-> JStr(Rep("a", 30))],
             [tag |-> "str", text |-> JStr(Rep("b", 30))] >>]],
      [paragraphs |-> [tag |-> "list", items |->
          << [tag |-> "dict", text |-> JNull] >>]],
      [paragraphs |-> [tag |-> "null", items |-> << >>]] }

SeqsUpTo(S, n) == UNION {[1..m -> S] : m \in 0..n}

\* A JSON file that does not exist, and one that holds the list d.
Missing == [exists |-> FALSE, data |-> << >>]
Present(d) == [exists |-> TRUE, data |-> d]

NotSaved == [written |-> FALSE, chunks |-> << >>]

\* The state when main calls process_sec_html.
InitMain ==
    /\ policy \in Policies
    /\ sec_files \in {<< >>, << "medium.html" >>, << "unreadable.html", "medium.html" >>}
    /\ datasets \in [JsonStages -> {Missing}]
          \cup { [fb |-> Present(f), train |-> Present(a), dev |-> b, test |-> c] :
                   f \in SeqsUpTo(FbRecords, MaxRecs),
                   a \in SeqsUpTo(TatqaRecords, MaxRecs),
                   b \in {Present(d) : d \in SeqsUpTo(TatqaRecords, 1)} \cup {Missing},
                   c \in {Present(d) : d \in SeqsUpTo(TatqaRecords, 1)} \cup {Missing} }
    /\ stage = "sec"
    /\ doc_i = 0
    /\ local_chunks = << >>
    /\ processed = 0
    /\ skipped = 0
    /\ counted = << >>
    /\ total_text_length = 0
    /\ all_chunks = << >>
    /\ saved = NotSaved

\* The state when process_sec_html enters its for loop, with many files.
InitSec ==
    /\ policy \in Policies
    /\ sec_files \in SeqsUpTo(FileNames, MaxFiles)
    /\ datasets = [st \in JsonStages |-> Missing]
    /\ stage = "sec"
    /\ doc_i = 0
    /\ local_chunks = << >>
    /\ processed = 0
    /\ skipped = 0
    /\ counted = << >>
    /\ total_text_length = 0
    /\ all_chunks = << >>
    /\ saved = NotSaved

\* process_sec_html: one iteration of the for loop, the try block and its
\* except clause (file i = doc_i, 0-based).
SecFile ==
    /\ stage = "sec"
    /\ doc_i < Len(sec_files)
    /\ LET name == sec_files[doc_i + 1]
           txt == CleanText(policy, FileText(name))
           cs == QuickChunkText(txt, DefaultChunkSize, DefaultOverlap)
       IN  IF ~FileReadable(name)
           THEN \* except Exception: skipped += 1
                /\ skipped' = skipped + 1
                /\ counted' = Append(counted, "exception")
                /\ UNCHANGED <<local_chunks, processed, total_text_length>>
           ELSE IF Len(txt) < SecMinLen(policy)
           THEN \* too short: skipped += 1; continue
                /\ skipped' = skipped + 1
                /\ counted' = Append(counted, "too_short")
                /\ UNCHANGED <<local_chunks, processed, total_text_length>>
           ELSE IF policy = "permissive" /\ doc_i = 0 /\ cs = << >>
           THEN \* fixed file: print(chunks[0][:200]) raises IndexError
                /\ skipped' = skipped + 1
                /\ counted' = Append(counted, "exception")
                /\ total_text_length' = total_text_length + Len(txt)
                /\ UNCHANGED <<local_chunks, processed>>
           ELSE /\ local_chunks' = local_chunks \o SecChunkRecords(name, doc_i, cs)
                /\ processed' = processed + 1
                /\ counted' = Append(counted, "processed")
                /\ total_text_length' =
                      IF policy = "permissive" THEN total_text_length + Len(txt)
                      ELSE total_text_length
                /\ UNCHANGED skipped
    /\ doc_i' = doc_i + 1
    /\ UNCHANGED <<sec_files, datasets, stage, all_chunks, saved>>
    /\ UNCHANGED notMain

\* process_sec_html returns all_chunks ([] at once when no file was found);
\* main: if sec_chunks: all_chunks.extend(sec_chunks).
SecReturn ==
    /\ stage = "sec"
    /\ doc_i = Len(sec_files)
    /\ all_chunks' = all_chunks \o local_chunks
    /\ local_chunks' = << >>
    /\ doc_i' = 0
    /\ stage' = NextStage(stage)
    /\ UNCHANGED <<sec_files, datasets, processed, skipped, counted,
                   total_text_length, saved>>
    /\ UNCHANGED notMain

\* main: the JSON file does not exist; process_json_dataset is not called.
JsonMissing ==
    /\ stage \in JsonStages
    /\ ~datasets[stage].exists
    /\ stage' = NextStage(stage)
    /\ UNCHANGED <<sec_files, datasets, doc_i, local_chunks, processed, skipped,
                   counted, total_text_length, all_chunks, saved>>
    /\ UNCHANGED notMain

\* process_json_dataset: one iteration of the for loop that raises nothing.
JsonRecord ==
    /\ stage \in JsonStages
    /\ datasets[stage].exists
    /\ doc_i < Len(datasets[stage].data)
    /\ LET item == datasets[stage].data[doc_i + 1]
           txt == RecordText(stage, item)
       IN  /\ ~RecordRaises(stage, item)
           /\ local_chunks' =
                 IF Len(txt.s) < JsonMinLen THEN local_chunks
                 ELSE local_chunks \o
                        JsonChunkRecords(stage, doc_i,
                            QuickChunkText(txt.s, DefaultChunkSize, DefaultOverlap))
    /\ doc_i' = doc_i + 1
    /\ UNCHANGED <<sec_files, datasets, stage, processed, skipped, counted,
                   total_text_length, all_chunks, saved>>
    /\ UNCHANGED notMain

\* process_json_dataset: the iteration raises (no try around it, nor around
\* the call in main): the exception leaves main.
JsonRaise ==
    /\ stage \in JsonStages
    /\ datasets[stage].exists
    /\ doc_i < Len(datasets[stage].data)
    /\ RecordRaises(stage, datasets[stage].data[doc_i + 1])
    /\ stage' = "crashed"
    /\ UNCHANGED <<sec_files, datasets, doc_i, local_chunks, processed, skipped,
                   counted, total_text_length, all_chunks, saved>>
    /\ UNCHANGED notMain

\* process_json_dataset returns all_chunks; main: all_chunks.extend(...).
JsonReturn ==
    /\ stage \in JsonStages
    /\ datasets[stage].exists
    /\ doc_i = Len(datasets[stage].data)
    /\ all_chunks' = all_chunks \o local_chunks
    /\ local_chunks' = << >>
    /\ doc_i' = 0
    /\ stage' = NextStage(stage)
    /\ UNCHANGED <<sec_files, datasets, processed, skipped, counted,
                   total_text_length, saved>>
    /\ UNCHANGED notMain

\* main: if all_chunks: json.dump(all_chunks, f)
Save ==
    /\ stage = "save"
    /\ saved' = IF all_chunks # << >>
                THEN [written |-> TRUE, chunks |-> all_chunks] ELSE saved
    /\ stage' = "done"
    /\ UNCHANGED <<sec_files, datasets, doc_i, local_chunks, processed, skipped,
                   counted, total_text_length, all_chunks>>
    /\ UNCHANGED notMain

ChunkIdle ==
    /\ text = << >>
    /\ chunk_size = DefaultChunkSize
    /\ overlap = DefaultOverlap
    /\ start = 0
    /\ chunks = << >>
    /\ pc = "idle"
    /\ windows = << >>
    /\ chunk_win = << >>

CleanIdle ==
    /\ policy = "permissive"
    /\ clean_text = << >>
    /\ lines = << >>
    /\ line_i = 1
    /\ cleaned_lines = << >>
    /\ cpc = "idle"
    /\ outs = << >>
    /\ decisions = << >>

MainIdle ==
    /\ sec_files = << >>
    /\ datasets = << >>
    /\ stage = "idle"
    /\ doc_i = 0
    /\ local_chunks = << >>
    /\ processed = 0
    /\ skipped = 0
    /\ counted = << >>
    /\ total_text_length = 0
    /\ all_chunks = << >>
    /\ saved = NotSaved

-----------------------------------------------------------------------------
(* The specifications *)

Init == InitChunk /\ CleanIdle /\ MainIdle

Next == Iterate \/ Return

Spec == Init /\ [][Next]_vars

CleanInit == InitClean /\ ChunkIdle /\ MainIdle

CleanNext == FilterLine \/ JoinAndCollapse \/ CleanAgain

CleanSpec == CleanInit /\ [][CleanNext]_vars

\* policy is set by InitMain and InitSec; the rest of the line filter is idle.
CleanRest ==
    /\ clean_text = << >>
    /\ lines = << >>
    /\ line_i = 1
    /\ cleaned_lines = << >>
    /\ cpc = "idle"
    /\ outs = << >>
    /\ decisions = << >>

MainInit == InitMain /\ ChunkIdle /\ CleanRest

MainNext == SecFile \/ SecReturn \/ JsonMissing \/ JsonRecord \/ JsonRaise
               \/ JsonReturn \/ Save

MainSpec == MainInit /\ [][MainNext]_vars

SecInit == InitSec /\ ChunkIdle /\ CleanRest

SecNext == SecFile \/ SecReturn

SecSpec == SecInit /\ [][SecNext]_vars

-----------------------------------------------------------------------------
(* Claims about quick_chunk_text (specification Spec) *)

\* What the claims call a valid configuration: chunk_size > 0 and
\* 0 <= overlap < chunk_size. The code never tests it.
ValidConfig(cs, ov) == cs > 0 /\ 0 <= ov /\ ov < cs

\* What the claims call an invalid configuration.
InvalidConfig(cs, ov) == ov >= cs \/ cs <= 0

\* The text positions (0-based) the n-th returned chunk was cut from.
ChunkLo(n) == windows[chunk_win[n]].start
ChunkHi(n) == windows[chunk_win[n]].start + windows[chunk_win[n]].len - 1
LastPositions(n, k) == {p \in ChunkLo(n)..ChunkHi(n) : p > ChunkHi(n) - k}
FirstPositions(n, k) == {p \in ChunkLo(n)..ChunkHi(n) : p < ChunkLo(n) + k}

\* C1: for chunk_size = c > 0 and 0 <= overlap = o < c, the k-th window
\* examined starts at (k-1)*(c-o), strictly after the one before it and before
\* the end of the text; every window that is not the last has length exactly
\* c; the last window is not empty and ends exactly at len(text); and
\* "A"*5000 with c = 2048, o = 200 returns text[0:2048], text[1848:3896],
\* text[3696:5000].
C1_WindowStarts ==
    ValidConfig(chunk_size, overlap) =>
        /\ \A k \in 1..Len(windows) :
              /\ windows[k].start = (k - 1) * (chunk_size - overlap)
              /\ k > 1 => windows[k].start > windows[k - 1].start
              /\ windows[k].start < Len(text)
              /\ (k < Len(windows) \/ pc = "while") => windows[k].len = chunk_size
              /\ (k = Len(windows) /\ pc = "done") =>
                    /\ windows[k].len > 0
                    /\ windows[k].len <= chunk_size
                    /\ windows[k].start + windows[k].len = Len(text)
        /\ (pc = "done" /\ Len(text) > 0) => Len(windows) > 0
        /\ (pc = "done" /\ text = BigText /\ chunk_size = 2048 /\ overlap = 200) =>
              chunks = << SubSeq(text, 1, 2048), SubSeq(text, 1849, 3896),
                          SubSeq(text, 3697, 5000) >>

\* The worked example has returned, after three windows.
C1_Witness ==
    /\ pc = "done"
    /\ text = BigText
    /\ Len(windows) = 3
    /\ windows[3].len = 1304

\* C2 (the claim as stated): a call with overlap >= chunk_size or
\* chunk_size <= 0 runs no loop iteration, produces no chunk and does not
\* return normally (it ends in ConfigError instead).
C2_ConfigError ==
    InvalidConfig(chunk_size, overlap) =>
        /\ windows = << >>
        /\ chunks = << >>
        /\ pc # "done"

\* C3 (the claim as stated): the loop never goes on to another iteration with
\* a start position that has not advanced. A step that breaks this has
\* chunk_size - overlap <= 0 and end < len(text), so every later window ends
\* no further right and the loop never returns.
C3_StartAdvances ==
    [][(pc = "while" /\ pc' = "while") => start' > start]_vars

\* C4: no returned chunk has a trimmed length <= 50; and for a valid
\* configuration and a text whose trimmed length is <= 50 the call returns
\* the empty list (it is never stuck before returning).
C4_MinChunk ==
    /\ \A n \in 1..Len(chunks) : Len(Strip(chunks[n])) > MinChunkChars
    /\ (ValidConfig(chunk_size, overlap) /\ Len(Strip(text)) <= MinChunkChars) =>
          /\ chunks = << >>
          /\ pc = "done" \/ ENABLED Next

\* A text longer than 50 characters but not once trimmed has been chunked to [].
C4_Witness ==
    /\ pc = "done"
    /\ ValidConfig(chunk_size, overlap)
    /\ Len(text) > MinChunkChars
    /\ Len(Strip(text)) = MinChunkChars
    /\ \E k \in 1..Len(windows) : windows[k].len > MinChunkChars
    /\ chunks = << >>

\* C5 (the claim as stated): for a valid configuration, the last `overlap`
\* positions of every returned chunk are the first `overlap` positions of the
\* chunk returned after it.
C5_AdjacentOverlap ==
    ValidConfig(chunk_size, overlap) =>
        \A n \in 1..(Len(chunks) - 1) :
            /\ Cardinality(LastPositions(n, overlap)) = overlap
            /\ LastPositions(n, overlap) = FirstPositions(n + 1, overlap)

\* C5 (amended): two adjacent returned chunks cut from consecutive windows
\* overlap by exactly `overlap` positions; two adjacent returned chunks with a
\* dropped window between them do not, when overlap > 0.
C5_ConsecutiveOverlap ==
    ValidConfig(chunk_size, overlap) =>
        \A n \in 1..(Len(chunks) - 1) :
            IF chunk_win[n + 1] = chunk_win[n] + 1
            THEN /\ Cardinality(LastPositions(n, overlap)) = overlap
                 /\ LastPositions(n, overlap) = FirstPositions(n + 1, overlap)
            ELSE overlap > 0 =>
                    LastPositions(n, overlap) # FirstPositions(n + 1, overlap)

\* A call has returned chunks of both kinds: two cut from consecutive
\* windows, and two with a dropped window between them.
C5_Witness ==
    /\ pc = "done"
    /\ ValidConfig(chunk_size, overlap)
    /\ overlap > 0
    /\ \E n \in 1..(Len(chunks) - 1) : chunk_win[n + 1] = chunk_win[n] + 1
    /\ \E n \in 1..(Len(chunks) - 1) : chunk_win[n + 1] > chunk_win[n] + 1

-----------------------------------------------------------------------------
(* Claims about the line filter (specification CleanSpec) *)

\* The retention rule of the permissive policy, as the claim words it.
RetainedPermissive(line) ==
    /\ Len(line) >= 20
    /\ CountAlpha(line) >= 3
    /\ 10 * CountAlnum(line) >= 3 * Len(line)

\* The discard rule of the aggressive policy, as the claim words it.
DiscardedAggressive(line) ==
    \/ CountDigit(line) > 0 /\ CountDigit(line) >= 2 * Max(1, CountAlpha(line))
    \/ Len(line) < 40

PassesRules(pol, line) ==
    IF pol = "permissive" THEN RetainedPermissive(line)
    ELSE ~DiscardedAggressive(line)

\* C6 (the claim as stated): applied to a string it has returned, the filter
\* returns that same string.
C6_Idempotent ==
    \A k \in 1..(Len(outs) - 1) : outs[k + 1] = outs[k]

\* C6 (amended): applied to a string N it has returned, the filter returns N
\* or the empty string: N exactly when N is empty or N, taken as the one line
\* it is, passes the policy's retention rules.
C6_SameOrEmpty ==
    \A k \in 1..(Len(outs) - 1) :
        /\ outs[k + 1] \in {outs[k], << >>}
        /\ outs[k + 1] = outs[k] <=> (outs[k] = << >> \/ PassesRules(policy, outs[k]))

\* The filter has been applied to a non-empty string it made of two lines.
C6_Witness ==
    /\ cpc = "done"
    /\ Len(outs) = 2
    /\ outs[1] # << >>
    /\ outs[2] = outs[1]
    /\ Cardinality({k \in 1..Len(decisions) : decisions[k].kept}) >= 3

\* C7: under the permissive policy a stripped, non-empty line is retained
\* if and only if its length is >= 20, it has >= 3 letters and its
\* alphanumeric count is >= 0.3 x its length, whatever its digit count; the
\* specification's three example lines are retained, discarded, discarded.
C7_PermissiveRule ==
    policy = "permissive" =>
        \A k \in 1..Len(decisions) :
            LET d == decisions[k]
            IN  /\ d.line # << >> => (d.kept <=> RetainedPermissive(d.line))
                /\ d.line = << >> => ~d.kept
                /\ d.line = ExTotalRevenue => d.kept
                /\ d.line \in {ExDates, ExStars} => ~d.kept

\* The permissive filter has retained a line in which digits outnumber the
\* letters by more than two to one, and the example line.
C7_Witness ==
    /\ policy = "permissive"
    /\ \E k \in 1..Len(decisions) :
          /\ decisions[k].kept
          /\ CountDigit(decisions[k].line) >= 2 * CountAlpha(decisions[k].line)
    /\ \E k \in 1..Len(decisions) :
          decisions[k].kept /\ decisions[k].line = ExTotalRevenue

\* C8: under the aggressive policy a stripped, non-empty line is discarded
\* if and only if (its digit count is > 0 and >= 2 x max(1, its letter
\* count)) or its length is < 40; the specification's two example lines are
\* discarded and retained.
C8_AggressiveRule ==
    policy = "aggressive" =>
        \A k \in 1..Len(decisions) :
            LET d == decisions[k]
            IN  /\ d.line # << >> => (~d.kept <=> DiscardedAggressive(d.line))
                /\ d.line = << >> => ~d.kept
                /\ d.line = ExRevenueTable => ~d.kept
                /\ d.line = ExManagement => d.kept

\* The aggressive filter has handled both example lines, and has retained a
\* line with a digit and no letter.
C8_Witness ==
    /\ policy = "aggressive"
    /\ \E k \in 1..Len(decisions) :
          ~decisions[k].kept /\ decisions[k].line = ExRevenueTable
    /\ \E k \in 1..Len(decisions) :
          decisions[k].kept /\ decisions[k].line = ExManagement

-----------------------------------------------------------------------------
(* The step-by-step machines and the functions used by main agree. *)

ChunkerAgrees ==
    (pc = "done" /\ ValidConfig(chunk_size, overlap)) =>
        chunks = QuickChunkText(text, chunk_size, overlap)

CleanAgrees ==
    \A k \in 1..(Len(outs) - 1) : outs[k + 1] = CleanText(policy, outs[k])

-----------------------------------------------------------------------------
(* Claims about main (specification MainSpec) *)

\* C9 (the claim as stated): no two chunk records written by one run of main
\* carry the same chunk_id.
C9_UniqueIds ==
    \A m, n \in 1..Len(saved.chunks) :
        m # n => saved.chunks[m].chunk_id # saved.chunks[n].chunk_id

\* Whether all_chunks holds a record with this identifier and source.
HasChunk(label, source, i) ==
    \E n \in 1..Len(all_chunks) :
        /\ all_chunks[n].chunk_id = ChunkId(label, i, 0)
        /\ all_chunks[n].source = source

\* C10 (the claim as stated): no document's failure aborts the run, and when
\* main is done every HTML file and every JSON record that can be handled
\* (its text is long enough and chunking it yields a chunk) has its chunks
\* in all_chunks, whatever failed before it.
C10_BatchSurvives ==
    /\ stage # "crashed"
    /\ stage = "done" =>
          /\ \A k \in 1..Len(sec_files) :
                (/\ FileReadable(sec_files[k])
                 /\ Len(CleanText(policy, FileText(sec_files[k]))) >= SecMinLen(policy))
                => HasChunk(SecLabel, "sec_edgar", k - 1)
          /\ \A st \in JsonStages : \A k \in 1..Len(datasets[st].data) :
                LET item == datasets[st].data[k]
                IN  (/\ ~RecordRaises(st, item)
                     /\ Len(Strip(RecordText(st, item).s)) > MinChunkChars)
                    => HasChunk(SourceLabel(st), SourceName(st), k - 1)

-----------------------------------------------------------------------------
(* Claims about process_sec_html (specification SecSpec) *)

\* The list all_chunks of process_sec_html: its local list while the loop
\* runs, and what main received once it has returned.
SecChunksNow == IF stage = "sec" THEN local_chunks ELSE all_chunks

\* Whether the chunk record r was made from file i (0-based) of html_files.
FromFile(r, i) ==
    /\ r.source = "sec_edgar"
    /\ r.source_file = sec_files[i + 1]
    /\ \E j \in 0..Len(SecChunksNow) : r.chunk_id = ChunkId(SecLabel, i, j)

\* The number of files handled so far that were counted as v.
CountOf(v) == Cardinality({k \in 1..Len(counted) : counted[k] = v})

\* C11: after any prefix of the file loop of process_sec_html, every file
\* handled so far has been counted exactly once, so processed + skipped is
\* the number of files handled; a file that could not be read is counted as
\* skipped for the exception, and one counted as skipped for its length has
\* a cleaned text below the minimum; all_chunks holds records only of files
\* counted as processed, and at least one record of each of them.
C11_CountedOnce ==
    /\ stage = "sec" => Len(counted) = doc_i
    /\ stage # "sec" => Len(counted) = Len(sec_files)
    /\ processed + skipped = Len(counted)
    /\ processed = CountOf("processed")
    /\ skipped = CountOf("too_short") + CountOf("exception")
    /\ \A k \in 1..Len(counted) :
          /\ ~FileReadable(sec_files[k]) => counted[k] = "exception"
          /\ counted[k] = "too_short" =>
                /\ FileReadable(sec_files[k])
                /\ Len(CleanText(policy, FileText(sec_files[k]))) < SecMinLen(policy)
          /\ counted[k] = "processed" <=>
                \E n \in 1..Len(SecChunksNow) : FromFile(SecChunksNow[n], k - 1)
    /\ \A n \in 1..Len(SecChunksNow) :
          \E k \in 1..Len(counted) :
              counted[k] = "processed" /\ FromFile(SecChunksNow[n], k - 1)

\* The loop has handled a file of each kind: one counted as processed, one
\* whose text was too short and one that could not be read; and all_chunks
\* holds more than one record.
C11_Witness ==
    /\ stage = "sec"
    /\ CountOf("processed") >= 1
    /\ CountOf("too_short") >= 1
    /\ CountOf("exception") >= 1
    /\ Len(local_chunks) >= 2

-----------------------------------------------------------------------------
(* Coverage of the text by the chunks of quick_chunk_text (specification Spec) *)

\* Whether text position p (0-based) lies inside the k-th window examined.
InWindow(p, k) ==
    windows[k].start <= p /\ p < windows[k].start + windows[k].len

\* Whether text position p lies inside a returned chunk.
InSomeChunk(p) == \E n \in 1..Len(chunks) : ChunkLo(n) <= p /\ p <= ChunkHi(n)

\* The text positions that hold a non-whitespace character.
ContentPositions == {p \in 0..(Len(text) - 1) : text[p + 1] \notin Whitespace}

\* The windows examined whose trimmed length is > 50, computed from the text.
LongWindows ==
    {k \in 1..Len(windows) :
        Len(Strip(Slice(text, windows[k].start, windows[k].end))) > MinChunkChars}

\* C12 (the claim as stated): for a valid configuration and a text whose
\* trimmed length is > 50, every position of the text that holds a
\* non-whitespace character lies inside at least one returned chunk.
C12_ChunksCover ==
    (pc = "done" /\ ValidConfig(chunk_size, overlap)
        /\ Len(Strip(text)) > MinChunkChars) =>
        \A p \in ContentPositions : InSomeChunk(p)

\* C12 (amended): for a valid configuration the windows examined cover the
\* text, every position lying inside at least one of them; the returned
\* chunks are exactly the windows whose trimmed length is > 50, in order; so
\* a position that holds a non-whitespace character lies inside a returned
\* chunk exactly when one of the windows that contain it has a trimmed
\* length > 50, and the rest of the content is not returned.
C12_WindowsCover ==
    (pc = "done" /\ ValidConfig(chunk_size, overlap)) =>
        LET long == LongWindows
        IN  /\ \A p \in 0..(Len(text) - 1) : \E k \in 1..Len(windows) : InWindow(p, k)
            /\ {chunk_win[n] : n \in 1..Len(chunks)} = long
            /\ \A m, n \in 1..Len(chunks) : m < n => chunk_win[m] < chunk_win[n]
            /\ \A p \in ContentPositions :
                  InSomeChunk(p) <=> \E k \in long : InWindow(p, k)

\* A call with a valid configuration on a text of trimmed length > 50 has
\* returned a chunk and dropped its short last window, so that content at the
\* end of the text is in no chunk.
C12_Witness ==
    /\ pc = "done"
    /\ ValidConfig(chunk_size, overlap)
    /\ Len(Strip(text)) > MinChunkChars
    /\ Len(chunks) >= 1
    /\ Len(windows) >= 2
    /\ ~windows[Len(windows)].kept
    /\ (Len(text) - 1) \in ContentPositions
    /\ ~InSomeChunk(Len(text) - 1)

====
